---- MODULE Spec2Model ----
(***************************************************************************)
(* Model of core/intraday_event_study.py: build_local_timeseries and its   *)
(* helper _shift_and_select.                                               *)
(*                                                                         *)
(* Timestamps are integers; a table (pandas DataFrame) is a record         *)
(*   [isTable, index, vals]                                                *)
(* with index the sequence of row labels and vals the sequence of the      *)
(* values of its single column.  One call of build_local_timeseries is     *)
(* followed from entry (pc = "start") through its loop (pc = "loop") to    *)
(* its return or its exception (pc = "done").                              *)
(***************************************************************************)
EXTENDS Integers, Sequences, FiniteSets, TLC

\* ------------------------------------------------------------ bounds
\* Timestamps of the small tables are 1..MaxT.
MaxT == 3
\* Longest relative_grid_indices collection.
MaxOffsets == 2
\* freq is None or a duration of 1..MaxFreq time units.
MaxFreq == 2
\* Length of the long event index (coverage of 9/10 needs ten events).
LongLen == 10

\* ------------------------------------------------------------ values
\* The missing marker pandas puts in rows shifted in from outside the table.
NaN == -1
\* freq = None.
NoFreq == 0

Times == 1..MaxT
\* The offsets a collection is made of: the grid step before the event, the
\* event's own and the step after it.
Offsets == {0 - 1, 0, 1}
Freqs == {NoFreq} \cup (1..MaxFreq)

Range(a, b) == [i \in 1..(b - a + 1) |-> a + i - 1]

RECURSIVE SeqOfSet(_)
\* The elements of a set of integers, ascending.
SeqOfSet(S) ==
  IF S = {} THEN <<>>
  ELSE LET m == CHOOSE x \in S : \A y \in S : x <= y
       IN <<m>> \o SeqOfSet(S \ {m})

Elems(s) == {s[i] : i \in DOMAIN s}

\* The value the grid carries in its row p: distinct in every row, so that a
\* row of the result names the grid row it was taken from.
GridValue(p) == 10 * p

\* An object that is not a DataFrame.
NotATable == [isTable |-> FALSE, index |-> <<>>, vals |-> <<>>]

\* The value events carries in the feature column of its row p.
EventValue(p) == 100 + p

EventsTable(index) ==
  [isTable |-> TRUE, index |-> index,
   vals |-> [i \in DOMAIN index |-> EventValue(i)]]

GridTable(index) ==
  [isTable |-> TRUE, index |-> index,
   vals |-> [i \in DOMAIN index |-> GridValue(i)]]

\* Indexes in strictly increasing order.
SortedIndexes == {SeqOfSet(S) : S \in SUBSET Times}
\* Indexes out of order or with a duplicate timestamp.
UnsortedIndexes == {p \in Times \X Times : p[2] <= p[1]}

EventsInputs ==
  {NotATable}
    \cup {EventsTable(ix) : ix \in SortedIndexes \cup UnsortedIndexes}
    \cup {EventsTable(Range(1, LongLen))}

GridInputs ==
  {NotATable}
    \cup {GridTable(ix) : ix \in SortedIndexes \cup UnsortedIndexes}
    \cup {GridTable(Range(1, LongLen - d)) : d \in 0..2}

RECURSIVE SeqsUpTo(_, _)
\* The sequences over S of length at most n.
SeqsUpTo(S, n) ==
  IF n = 0 THEN {<<>>}
  ELSE LET shorter == SeqsUpTo(S, n - 1)
       IN shorter \cup {Append(s, x) : s \in shorter, x \in S}

OffsetLists == SeqsUpTo(Offsets, MaxOffsets)

\* ------------------------------------------------------------ helpers.dbg
\* dbg.dassert_monotonic_index on an index of timestamps.
dassert_monotonic_index(index) ==
  \A i \in DOMAIN index : \A j \in DOMAIN index : i < j => index[i] < index[j]

\* (offset, timestamp) keys of the concatenated table, compared as tuples.
KeyLess(r, s) == r.off < s.off \/ (r.off = s.off /\ r.ts < s.ts)
KeyLeq(r, s) == r.off < s.off \/ (r.off = s.off /\ r.ts <= s.ts)

\* dbg.dassert_monotonic_index on the two-level index of the result.
dassert_monotonic_multiindex(rows) ==
  \A i \in DOMAIN rows : \A j \in DOMAIN rows : i < j => KeyLess(rows[i], rows[j])

\* ------------------------------------------------------------ pandas
\* A shift that moves the values by rows whether or not freq is given.
shiftIgnoresFreq(df, periods, fr) ==
  [df EXCEPT !.vals =
     [i \in DOMAIN df.index |->
        IF (i - periods) \in DOMAIN df.index
        THEN df.vals[i - periods] ELSE NaN]]

\* A shift that moves the values the other way.
shiftOtherWay(df, periods, fr) ==
  IF fr = NoFreq
  THEN [df EXCEPT !.vals =
          [i \in DOMAIN df.index |->
             IF (i + periods) \in DOMAIN df.index
             THEN df.vals[i + periods] ELSE NaN]]
  ELSE [df EXCEPT !.index =
          [i \in DOMAIN df.index |-> df.index[i] + periods * fr]]

\* A shift by freq that moves the index the other way.
shiftIndexOtherWay(df, periods, fr) ==
  IF fr = NoFreq
  THEN [df EXCEPT !.vals =
          [i \in DOMAIN df.index |->
             IF (i - periods) \in DOMAIN df.index
             THEN df.vals[i - periods] ELSE NaN]]
  ELSE [df EXCEPT !.index =
          [i \in DOMAIN df.index |-> df.index[i] - periods * fr]]

\* DataFrame.shift(periods, freq): without freq the values move by periods
\* rows under an unchanged index; with freq the index moves by periods * freq
\* and the values stay.
shift(df, periods, fr) ==
  IF fr = NoFreq
  THEN [df EXCEPT !.vals =
          [i \in DOMAIN df.index |->
             IF (i - periods) \in DOMAIN df.index
             THEN df.vals[i - periods] ELSE NaN]]
  ELSE [df EXCEPT !.index =
          [i \in DOMAIN df.index |-> df.index[i] + periods * fr]]

\* An intersection that loses its last label.
intersectionDropsLast(a, b) ==
  LET both == SelectSeq(a, LAMBDA t : t \in Elems(b))
  IN IF Len(both) > 1 THEN SubSeq(both, 1, Len(both) - 1) ELSE both

\* Index.intersection: the labels of a that are in b, in the order of a.
intersection(a, b) == SelectSeq(a, LAMBDA t : t \in Elems(b))

\* Index.difference: the labels of a that are not in b.
difference(a, b) == SelectSeq(a, LAMBDA t : t \notin Elems(b))

PosOf(index, t) == CHOOSE i \in DOMAIN index : index[i] = t

\* DataFrame.loc[labels]: the rows of df at the labels, in their order.
loc(df, labels) ==
  [isTable |-> TRUE, index |-> labels,
   vals |-> [i \in DOMAIN labels |-> df.vals[PosOf(df.index, labels[i])]]]

RECURSIVE InsertDescending(_, _)
\* The insertion of a sort in descending order.
InsertDescending(x, s) ==
  IF s = <<>> THEN <<x>>
  ELSE IF x >= Head(s) THEN <<x>> \o s
  ELSE <<Head(s)>> \o InsertDescending(x, Tail(s))

RECURSIVE InsertSorted(_, _)
\* The place of x in the ascending list s.
InsertSorted(x, s) ==
  IF s = <<>> THEN <<x>>
  ELSE IF x <= Head(s) THEN <<x>> \o s
  ELSE <<Head(s)>> \o InsertSorted(x, Tail(s))

\* A sort that leaves the list as the caller gave it.
SortKeepsOrder(s) == s

RECURSIVE Sort(_)
\* list.sort(): ascending, duplicates kept.
Sort(s) == IF s = <<>> THEN <<>> ELSE InsertSorted(Head(s), Sort(Tail(s)))

\* ------------------------------------------------------------ diagnostics
\* A dict of _shift_and_select's statistics: keys is the set of its keys, the
\* other fields the values under them.  given = FALSE is None.
NoInfo ==
  [given |-> FALSE, keys |-> {}, indices_with_no_data |-> <<>>,
   periods |-> 0, freq |-> NoFreq]
EmptyInfo == [NoInfo EXCEPT !.given = TRUE]

\* The caller's info argument: None, or a dict from offsets to records.
NoDiagnostics == [given |-> FALSE, d |-> <<>>]
EmptyDiagnostics == [given |-> TRUE, d |-> <<>>]

\* d[k] = v on a dict.
DictSet(d, k, v) == [x \in (DOMAIN d) \cup {k} |-> IF x = k THEN v ELSE d[x]]

\* relative_data[k] = v: a dict in insertion order, as a sequence of items.
ItemsSet(items, k, v) ==
  IF \E i \in DOMAIN items : items[i].key = k
  THEN [i \in DOMAIN items |->
          IF items[i].key = k THEN [key |-> k, val |-> v] ELSE items[i]]
  ELSE Append(items, [key |-> k, val |-> v])

RECURSIVE concat(_)
\* pd.concat(dict): the tables one after the other in the order of the
\* dict, each row keyed (dict key, row label).
concat(items) ==
  IF items = <<>> THEN <<>>
  ELSE LET k == Head(items).key
           t == Head(items).val
       IN [i \in DOMAIN t.index |->
             [off |-> k, ts |-> t.index[i], val |-> t.vals[i]]]
          \o concat(Tail(items))

\* ------------------------------------------------------------ _shift_and_select
Raised(name, line) == [err |-> name, line |-> line]
NoError == Raised("none", 0)

\* pct_found < 0.9, with pct_found = intersection.size / idx.size.
LowCoverage(found, size) == 10 * found < 9 * size

\* The statistics written into info (lines 192-195).
PopulateInfo(inf, idx, inter, periods, fr) ==
  [given |-> TRUE,
   keys |-> {"indices_with_no_data", "periods"}
              \cup (IF fr # NoFreq THEN {"freq"} ELSE {}),
   indices_with_no_data |-> difference(inter, idx),
   periods |-> periods,
   freq |-> fr]

\* A call without the assertion that the intersection is not empty.
ShiftAndSelectNoAssert(idx, gd, periods, fr, inf) ==
  LET shifted_grid_data == shift(gd, periods, fr)
      inter == intersection(idx, shifted_grid_data.index)
      warned == LowCoverage(Len(inter), Len(idx))
      selected == loc(shifted_grid_data, inter)
  IN IF ~inf.given
     THEN [raised |-> NoError, warned |-> warned,
           selected |-> selected, info |-> inf, inter |-> inter]
     ELSE [raised |-> Raised("NameError", 196), warned |-> warned,
           selected |-> selected,
           info |-> PopulateInfo(inf, idx, inter, periods, fr),
           inter |-> inter]

\* One call: what it raises, whether it warned, the rows it selected
\* and the info dict as the call leaves it.
ShiftAndSelect(idx, gd, periods, fr, inf) ==
  LET shifted_grid_data == shift(gd, periods, fr)
      inter == intersection(idx, shifted_grid_data.index)
      nothing == [isTable |-> TRUE, index |-> <<>>, vals |-> <<>>]
  IN IF inter = <<>>
     THEN [raised |-> Raised("AssertionError", 182), warned |-> FALSE,
           selected |-> nothing, info |-> inf, inter |-> inter]
     ELSE LET warned == LowCoverage(Len(inter), Len(idx))
              selected == loc(shifted_grid_data, inter)
          IN IF ~inf.given
             THEN [raised |-> NoError, warned |-> warned,
                   selected |-> selected, info |-> inf, inter |-> inter]
             ELSE IF inf.keys # {}
             THEN [raised |-> Raised("AssertionError", 191), warned |-> warned,
                   selected |-> selected, info |-> inf, inter |-> inter]
             \* info["mode"] = mode: the name mode is bound nowhere.
             ELSE [raised |-> Raised("NameError", 196), warned |-> warned,
                   selected |-> selected,
                   info |-> PopulateInfo(inf, idx, inter, periods, fr),
                   inter |-> inter]

\* ------------------------------------------------------------ state
VARIABLES
  events,                 \* argument events
  grid_data,              \* argument grid_data
  relative_grid_indices,  \* the caller's collection: [isList, items]
  freq,                   \* argument freq
  info,                   \* the caller's diagnostics container
  arg_offsets,            \* the items of relative_grid_indices on entry
  pc,                     \* "start", "loop", "done"
  lst,                    \* the local name relative_grid_indices
  pos,                    \* position of the for loop in lst
  relative_data,          \* the dict relative_data
  info_for_idx,           \* the local info_for_idx of the last iteration
  warnings,               \* the periods of the warnings logged, in order
  raised,                 \* the exception that ended the call
  df                      \* the table returned

\* reindex_event_features(events, grid_data).
VARIABLES
  reindexed               \* the table returned

\* A second call of build_local_timeseries on the same argument objects,
\* running at the same time as the first: its local names.
VARIABLES
  pc2, lst2, pos2, relative_data2, raised2, df2

\* regression(x, y, info).
VARIABLES
  reg_x,                  \* argument x: the rows of the design matrix
  reg_y,                  \* argument y: the response, NaN where missing
  reg_info,               \* argument info: None, or the dict and its keys
  reg_pc,                 \* "start", "fitted", "predict", "done"
  reg_stats,              \* the local names of lines 214-236
  reg_raised,             \* the exception that ended the call
  reg_fitted              \* the series returned

\* _main(args) of the linter, its files and its environment.
VARIABLES
  args,                   \* the parsed command line
  exists,                 \* the files on disk
  installed,              \* the executables `which` finds
  main_pc,                \* where _main is
  file_names,             \* the files selected by _get_files
  actions,                \* the actions selected by _select_actions
  progress,               \* per file, the position in actions of its worker
  ran,                    \* per file, the actions run on it so far
  synced,                 \* per file, how often sync_jupytext called jupytext
  written,                \* the pairs (worker, file written by its actions)
  tmp_dir,                \* the tmp directory exists
  linter_log,             \* the linter log has been written
  main_raised,            \* the exception that ended _main
  exit_code               \* the status _main exits or returns with

\* _basic_hygiene(file_name) on one file.
VARIABLES
  content,                \* the characters of the file
  original,               \* the characters the file had before the action
  hygiene_pc,             \* "start", "done"
  hygiene_output          \* the messages the action returns

callVars ==
  <<events, grid_data, relative_grid_indices, freq, info, arg_offsets, pc,
    lst, pos, relative_data, info_for_idx, warnings, raised, df>>
secondVars == <<pc2, lst2, pos2, relative_data2, raised2, df2>>
regVars ==
  <<reg_x, reg_y, reg_info, reg_pc, reg_stats, reg_raised, reg_fitted>>
lintVars ==
  <<args, exists, installed, main_pc, file_names, actions, progress, ran,
    synced, written, tmp_dir, linter_log, main_raised, exit_code>>
hygieneVars == <<content, original, hygiene_pc, hygiene_output>>
toolVars == <<lintVars, hygieneVars>>
otherVars == <<reindexed, secondVars, regVars, toolVars>>

vars == <<callVars, otherVars>>

\* No table, no series: nothing was returned.
Nothing == [isTable |-> FALSE, index |-> <<>>, vals |-> <<>>]

\* The second call is not made.
SecondIdle ==
  /\ pc2 = "idle"
  /\ lst2 = <<>>
  /\ pos2 = 1
  /\ relative_data2 = <<>>
  /\ raised2 = [err |-> "none", line |-> 0]
  /\ df2 = <<>>

\* The linter is not run.
LintIdle ==
  /\ args = <<>>
  /\ exists = {}
  /\ installed = {}
  /\ main_pc = "idle"
  /\ file_names = <<>>
  /\ actions = <<>>
  /\ progress = <<>>
  /\ ran = <<>>
  /\ synced = <<>>
  /\ written = {}
  /\ tmp_dir = FALSE
  /\ linter_log = FALSE
  /\ main_raised = [err |-> "none", line |-> 0]
  /\ exit_code = 0 - 1

\* _basic_hygiene is not called.
HygieneIdle ==
  /\ content = <<>>
  /\ original = <<>>
  /\ hygiene_pc = "idle"
  /\ hygiene_output = 0

ToolsIdle == LintIdle /\ HygieneIdle

\* regression is not called.
RegIdle ==
  /\ reg_x = <<>>
  /\ reg_y = <<>>
  /\ reg_info = [given |-> FALSE, keys |-> {}]
  /\ reg_pc = "idle"
  /\ reg_stats = <<>>
  /\ reg_raised = [err |-> "none", line |-> 0]
  /\ reg_fitted = Nothing

\* The arguments and local names of one call on entry, info being one of
\* containers.
CallInitWith(containers) ==
  /\ events \in EventsInputs
  /\ grid_data \in GridInputs
  /\ \E items \in OffsetLists, isList \in BOOLEAN :
       /\ relative_grid_indices = [isList |-> isList, items |-> items]
       /\ arg_offsets = items
  /\ freq \in Freqs
  /\ info \in containers
  /\ pc = "start"
  /\ lst = <<>>
  /\ pos = 1
  /\ relative_data = <<>>
  /\ info_for_idx = NoInfo
  /\ warnings = <<>>
  /\ raised = NoError
  /\ df = <<>>

\* One call with info=None or with an empty dict.
CallInit == CallInitWith({NoDiagnostics, EmptyDiagnostics})

Init ==
  /\ CallInit
  /\ reindexed = Nothing
  /\ SecondIdle
  /\ RegIdle
  /\ ToolsIdle

\* The assertions without the one on the index of grid_data.
CheckInputsNoGridIndex(ev, gd, items) ==
  IF ~ev.isTable THEN Raised("AssertionError", 129)
  ELSE IF ~gd.isTable THEN Raised("AssertionError", 130)
  ELSE IF ~dassert_monotonic_index(ev.index) THEN Raised("AssertionError", 131)
  ELSE IF items = <<>> THEN Raised("AssertionError", 136)
  ELSE NoError

\* Lines 129-136: the first assertion that fails, or NoError.
CheckInputs(ev, gd, items) ==
  IF ~ev.isTable THEN Raised("AssertionError", 129)
  ELSE IF ~gd.isTable THEN Raised("AssertionError", 130)
  ELSE IF ~dassert_monotonic_index(ev.index) THEN Raised("AssertionError", 131)
  ELSE IF ~dassert_monotonic_index(gd.index) THEN Raised("AssertionError", 132)
  ELSE IF items = <<>> THEN Raised("AssertionError", 136)
  ELSE NoError

\* Lines 128-139: the assertions on the inputs, the sort, the empty dict.
Enter ==
  /\ pc = "start"
  /\ LET r == CheckInputs(events, grid_data, relative_grid_indices.items)
     IN IF r # NoError
        THEN /\ raised' = r
             /\ pc' = "done"
             /\ UNCHANGED <<relative_grid_indices, lst>>
        ELSE /\ lst' = Sort(relative_grid_indices.items)
             \* A list is sorted in place; any other iterable is copied first.
             /\ relative_grid_indices' =
                  IF relative_grid_indices.isList
                  THEN [relative_grid_indices EXCEPT !.items = lst']
                  ELSE relative_grid_indices
             /\ pc' = "loop"
             /\ UNCHANGED raised
  /\ UNCHANGED <<events, grid_data, freq, info, arg_offsets, pos,
                 relative_data, info_for_idx, warnings, df>>
  /\ UNCHANGED otherVars

\* Lines 140-152: one iteration of the for loop.
Iterate ==
  /\ pc = "loop"
  /\ pos <= Len(lst)
  /\ LET idx == lst[pos]
         fresh == IF info.given THEN EmptyInfo ELSE NoInfo
         r == ShiftAndSelect(events.index, grid_data, 0 - idx, freq, fresh)
     IN /\ info_for_idx' = r.info
        /\ warnings' = IF r.warned THEN Append(warnings, 0 - idx) ELSE warnings
        /\ IF r.raised # NoError
           THEN /\ raised' = r.raised
                /\ pc' = "done"
                /\ UNCHANGED <<info, relative_data, pos>>
           ELSE /\ info' = IF info.given
                           THEN [info EXCEPT !.d = DictSet(info.d, idx, r.info)]
                           ELSE info
                /\ relative_data' = ItemsSet(relative_data, idx, r.selected)
                /\ pos' = pos + 1
                /\ UNCHANGED <<raised, pc>>
  /\ UNCHANGED <<events, grid_data, relative_grid_indices, freq, arg_offsets,
                 lst, df>>
  /\ UNCHANGED otherVars

\* Lines 153-156: the concatenation, its assertion and the return.
Return ==
  /\ pc = "loop"
  /\ pos > Len(lst)
  /\ LET rows == concat(relative_data)
     IN IF dassert_monotonic_multiindex(rows)
        THEN df' = rows /\ UNCHANGED raised
        ELSE raised' = Raised("AssertionError", 155) /\ UNCHANGED df
  /\ pc' = "done"
  /\ UNCHANGED <<events, grid_data, relative_grid_indices, freq, info,
                 arg_offsets, lst, pos, relative_data, info_for_idx, warnings>>
  /\ UNCHANGED otherVars

Next == Enter \/ Iterate \/ Return

Spec == Init /\ [][Next]_vars


\* ------------------------------------------------------------ the call as a function
RECURSIVE Gather(_, _, _, _, _, _)
\* Lines 139-152: the loop over the sorted offsets l, from the dict acc.
Gather(idx, gd, l, fr, given, acc) ==
  IF l = <<>> THEN [raised |-> NoError, data |-> acc]
  ELSE LET r == ShiftAndSelect(idx, gd, 0 - Head(l), fr,
                               IF given THEN EmptyInfo ELSE NoInfo)
       IN IF r.raised # NoError
          THEN [raised |-> r.raised, data |-> acc]
          ELSE Gather(idx, gd, Tail(l), fr, given,
                      ItemsSet(acc, Head(l), r.selected))

\* What one call raises and returns; given says whether info is a dict.
build_local_timeseries(ev, gd, items, fr, given) ==
  LET c == CheckInputs(ev, gd, items)
  IN IF c # NoError THEN [raised |-> c, df |-> <<>>]
     ELSE LET g == Gather(ev.index, gd, Sort(items), fr, given, <<>>)
              rows == concat(g.data)
          IN IF g.raised # NoError THEN [raised |-> g.raised, df |-> <<>>]
             ELSE IF dassert_monotonic_multiindex(rows)
             THEN [raised |-> NoError, df |-> rows]
             ELSE [raised |-> Raised("AssertionError", 155), df |-> <<>>]

\* ------------------------------------------------------------ vocabulary of the claims
Done == pc = "done"
Returned == pc = "done" /\ raised = NoError

StrictlyIncreasing(index) ==
  \A i \in DOMAIN index : (i + 1) \in DOMAIN index => index[i] < index[i + 1]

\* The preconditions of the call, on the arguments as the caller passed them.
ValidInputs ==
  /\ events.isTable
  /\ grid_data.isTable
  /\ StrictlyIncreasing(events.index)
  /\ StrictlyIncreasing(grid_data.index)
  /\ arg_offsets # <<>>

EventTimes == Elems(events.index)
GridTimes == Elems(grid_data.index)
OffsetsGiven == Elems(arg_offsets)

\* The event timestamps that have a grid row k steps (of freq, or of the grid's
\* own index when freq is None) away: the intersection for offset k.
CoveredEvents(k) == {t \in EventTimes : (t + k * freq) \in GridTimes}

\* The offset of the iteration the loop is in (or was in when it raised).
CurrentOffset == lst[pos]

\* The permutations of a sequence.
Reorderings(s) ==
  {[i \in DOMAIN s |-> s[f[i]]] :
     f \in {g \in [DOMAIN s -> DOMAIN s] : \A i, j \in DOMAIN s : g[i] = g[j] => i = j}}

RowsAt(k, t) == {i \in DOMAIN df : df[i].off = k /\ df[i].ts = t}

\* ------------------------------------------------------------ claims

\* C1: for inputs with strictly increasing indexes and a non-empty offset
\* list, the concatenated table has its (offset, timestamp) keys in
\* non-decreasing lexicographic order: the assertion on the result's index
\* never fails, and in the table returned no row's key is below an earlier
\* row's key.
C1_KeysNonDecreasing ==
  (Done /\ ValidInputs) =>
    /\ raised.line # 155
    /\ (raised = NoError =>
          \A i \in DOMAIN df : \A j \in DOMAIN df : i < j => KeyLeq(df[i], df[j]))

\* C1 witness: a table returned for offsets given in descending order, with
\* two offsets and two timestamps under one of them.
C1_Witness ==
  /\ Returned
  /\ arg_offsets = <<1, 0 - 1>>
  /\ \E i \in DOMAIN df : \E j \in DOMAIN df :
       df[i].off < df[j].off
  /\ \E i \in DOMAIN df : \E j \in DOMAIN df :
       df[i].off = df[j].off /\ df[i].ts < df[j].ts

\* C2: the call gives the same outcome (the same table, or the same
\* exception) for every reordering of the offsets it was given.
C2_OrderOfOffsetsIrrelevant ==
  Done =>
    \A p \in Reorderings(arg_offsets) :
      build_local_timeseries(events, grid_data, p, freq, info.given)
        = [raised |-> raised, df |-> df]

\* C2 witness: a non-empty table returned for offsets that were not given in
\* ascending order.
C2_Witness ==
  /\ Returned
  /\ df # <<>>
  /\ Len(arg_offsets) = 2
  /\ arg_offsets[1] > arg_offsets[2]

\* C3: the "indices with no data" entry written for an offset is the set of
\* event timestamps that are not in the intersection for that offset.
C3_NoDataIsEventsMinusIntersection ==
  "indices_with_no_data" \in info_for_idx.keys =>
    info_for_idx.indices_with_no_data
      = SeqOfSet(EventTimes \ CoveredEvents(CurrentOffset))

\* C4: with an empty diagnostics container and a non-empty intersection at
\* every offset the call returns, returns the table of the call without a
\* container, and leaves in the container one record per distinct offset.
C4_DiagnosticsCallCompletes ==
  (Done /\ ValidInputs /\ info.given
     /\ \A k \in OffsetsGiven : CoveredEvents(k) # {}) =>
    /\ raised = NoError
    /\ [raised |-> raised, df |-> df]
         = build_local_timeseries(events, grid_data, arg_offsets, freq, FALSE)
    /\ DOMAIN info.d = OffsetsGiven

\* C5: the record written for offset k holds k itself, and holds the
\* frequency exactly when freq is not None.
C5_RecordHoldsOffsetAndFreq ==
  "periods" \in info_for_idx.keys =>
    /\ info_for_idx.periods = CurrentOffset
    /\ ("freq" \in info_for_idx.keys) = (freq # NoFreq)

\* C6: when the intersection is empty for some offset of the list, the call
\* raises and returns no table, whatever the other offsets' intersections.
C6_EmptyIntersectionAborts ==
  (Done /\ ValidInputs /\ \E k \in OffsetsGiven : CoveredEvents(k) = {}) =>
    /\ raised # NoError
    /\ df = <<>>

\* C6 witness: the call raised on an offset with an empty intersection after
\* it had gathered the rows of an earlier offset.
C6_Witness ==
  /\ Done
  /\ ValidInputs
  /\ raised = Raised("AssertionError", 182)
  /\ relative_data # <<>>
  /\ relative_data[1].val.index # <<>>
  /\ CoveredEvents(CurrentOffset) = {}
  /\ df = <<>>

\* The timestamps the grid's rows carry once shifted for offset k: with freq
\* every timestamp is moved, without it the rows move under the same index.
ShiftedRowTimes(k) ==
  IF freq # NoFreq
  THEN {g - k * freq : g \in GridTimes}
  ELSE {grid_data.index[i] : i \in {j \in DOMAIN grid_data.index :
                                      (j + k) \in DOMAIN grid_data.index}}

\* Every shifted grid row is outside the range of the event timestamps.
AllOutside(k) ==
  /\ EventTimes # {}
  /\ GridTimes # {}
  /\ \A t \in ShiftedRowTimes(k) :
       (\A e \in EventTimes : t < e) \/ (\A e \in EventTimes : t > e)

\* C7 as stated: an offset that puts every shifted grid row outside the range
\* of the event timestamps makes the call raise, with or without freq.
C7_OutOfRangeRaisesAnyFreq ==
  (Done /\ ValidInputs /\ \E k \in OffsetsGiven : AllOutside(k)) =>
    raised # NoError

\* C7: with freq given, an offset that puts every shifted grid timestamp
\* outside the range of the event timestamps makes the call raise; with
\* freq None the shift leaves the index in place, and the assertion on the
\* intersection fails exactly when no event timestamp is on the grid,
\* whatever the offsets.
C7_OutOfRangeRaisesWithFreq ==
  (Done /\ ValidInputs) =>
    /\ (freq # NoFreq /\ \E k \in OffsetsGiven : AllOutside(k))
         => raised # NoError
    /\ freq = NoFreq
         => ((raised.line = 182) = (EventTimes \cap GridTimes = {}))

\* C7 witness: with freq given the call raised on an offset that moved every
\* grid timestamp out of the events' range, events and grid sharing a
\* timestamp before the shift.
C7_Witness ==
  /\ Done
  /\ ValidInputs
  /\ freq # NoFreq
  /\ EventTimes \cap GridTimes # {}
  /\ raised = Raised("AssertionError", 182)
  /\ AllOutside(CurrentOffset)

\* C8: when every offset has coverage above 0, the call does not fail, warns
\* for exactly the offsets whose coverage is below 0.9, and returns the
\* intersecting rows of every offset.
C8_LowCoverageWarnsAndContinues ==
  (Done /\ ValidInputs
     /\ \A k \in OffsetsGiven : CoveredEvents(k) # {}
     /\ \E o \in OffsetsGiven :
          10 * Cardinality(CoveredEvents(o)) < 9 * Cardinality(EventTimes)) =>
    /\ raised = NoError
    /\ Elems(warnings)
         = {0 - k : k \in {j \in OffsetsGiven :
               10 * Cardinality(CoveredEvents(j)) < 9 * Cardinality(EventTimes)}}
    /\ \A k \in OffsetsGiven : \A t \in CoveredEvents(k) : RowsAt(k, t) # {}

\* The statement of C8 for the calls made without a diagnostics container.
CoverageWarningWithoutDiagnostics ==
  (Done /\ ValidInputs /\ ~info.given
     /\ \A k \in OffsetsGiven : CoveredEvents(k) # {}) =>
    /\ raised = NoError
    /\ Elems(warnings)
         = {0 - k : k \in {j \in OffsetsGiven :
               10 * Cardinality(CoveredEvents(j)) < 9 * Cardinality(EventTimes)}}
    /\ \A k \in OffsetsGiven : \A t \in CoveredEvents(k) : RowsAt(k, t) # {}

\* C9: when events or grid_data is not a table, an index is not strictly
\* increasing or the offset collection is empty, the call never enters its
\* loop: it ends with an AssertionError of lines 129-136, having processed no
\* offset and with the diagnostics container and the caller's offset
\* collection as they were passed.
C9_InvalidInputsFailFirst ==
  ~ValidInputs =>
    /\ pc # "loop"
    /\ pos = 1
    /\ relative_data = <<>>
    /\ info_for_idx = NoInfo
    /\ warnings = <<>>
    /\ info.d = <<>>
    /\ relative_grid_indices.items = arg_offsets
    /\ (Done => /\ raised.err = "AssertionError"
                /\ raised.line \in {129, 130, 131, 132, 136}
                /\ df = <<>>)

\* C9 witness: the call ended on the assertion about grid_data's index, with
\* a diagnostics container and an unsorted list of offsets passed.
C9_Witness ==
  /\ Done
  /\ raised = Raised("AssertionError", 132)
  /\ info.given
  /\ relative_grid_indices.isList
  /\ arg_offsets = <<1, 0>>

\* C10: with freq None, for every offset k and every event timestamp at grid
\* position p, the table returned has exactly one row keyed (k, timestamp),
\* holding the grid's value of position p + k, or the missing marker when
\* p + k is not a position of the grid.
C10_RowHoldsGridRowAtOffset ==
  (Returned /\ freq = NoFreq) =>
    \A k \in OffsetsGiven : \A p \in DOMAIN grid_data.index :
      grid_data.index[p] \in EventTimes =>
        /\ Cardinality(RowsAt(k, grid_data.index[p])) = 1
        /\ \A i \in RowsAt(k, grid_data.index[p]) :
             df[i].val = IF (p + k) \in DOMAIN grid_data.index
                         THEN grid_data.vals[p + k] ELSE NaN

\* C10 witness: a table returned with freq None for the offsets 1 and -1,
\* with a row taken from the grid and a row of missing values under each.
C10_Witness ==
  /\ Returned
  /\ freq = NoFreq
  /\ \A k \in {0 - 1, 1} :
       /\ \E i \in DOMAIN df : df[i].off = k /\ df[i].val = NaN
       /\ \E i \in DOMAIN df : df[i].off = k /\ df[i].val # NaN


\* Rows(k): the positions of the rows of the table returned under outer key k.
RowsUnder(k) == {i \in DOMAIN df : df[i].off = k}

RECURSIVE SumOver(_, _)
\* The sum of f[k] over the set S.
SumOver(S, f) ==
  IF S = {} THEN 0
  ELSE LET k == CHOOSE j \in S : TRUE IN f[k] + SumOver(S \ {k}, f)

\* C11 as stated: with freq given, the grid timestamps are moved forward by
\* k units of freq before the intersection, so that the row keyed (k, t)
\* is the grid row stamped t - k * freq.
C11_TimestampsMovedForward ==
  (Returned /\ freq # NoFreq) =>
    \A i \in DOMAIN df :
      /\ (df[i].ts - df[i].off * freq) \in GridTimes
      /\ df[i].val
           = grid_data.vals[PosOf(grid_data.index, df[i].ts - df[i].off * freq)]

\* C11: with freq given, for offset k the grid timestamps are moved by -k
\* units of freq (k units back) with every row keeping its values, before
\* the intersection is taken: the row keyed (k, t) is the grid row stamped
\* t + k * freq, and every event timestamp t with a grid row at t + k * freq
\* has such a row.
C11_TimestampsMovedBack ==
  (Returned /\ freq # NoFreq) =>
    /\ \A i \in DOMAIN df :
         /\ (df[i].ts + df[i].off * freq) \in GridTimes
         /\ df[i].val
              = grid_data.vals[PosOf(grid_data.index, df[i].ts + df[i].off * freq)]
    /\ \A k \in OffsetsGiven : \A t \in EventTimes :
         (t + k * freq) \in GridTimes => RowsAt(k, t) # {}

\* C11 witness: a table returned with freq of two units and an offset that is
\* not 0, holding a row whose event timestamp is not on the grid.
C11_Witness ==
  /\ Returned
  /\ freq = 2
  /\ \E i \in DOMAIN df :
       /\ df[i].off # 0
       /\ df[i].ts \notin GridTimes
       /\ df[i].val # NaN

\* C12: for every offset k the rows under outer key k are one row for each
\* event timestamp of the intersection for k and no other row, no row is
\* under a key that is not an offset given, and the number of rows is the sum
\* of the sizes of the intersections over the distinct offsets.
C12_RowsAreTheIntersections ==
  Returned =>
    /\ \A k \in OffsetsGiven :
         /\ {df[i].ts : i \in RowsUnder(k)} = CoveredEvents(k)
         /\ \A t \in CoveredEvents(k) : Cardinality(RowsAt(k, t)) = 1
    /\ \A i \in DOMAIN df : df[i].off \in OffsetsGiven
    /\ Len(df) = SumOver(OffsetsGiven,
                         [k \in OffsetsGiven |-> Cardinality(CoveredEvents(k))])

\* C12 witness: a table returned for two distinct offsets whose intersections
\* differ in size, one of them smaller than the event index.
C12_Witness ==
  /\ Returned
  /\ Cardinality(OffsetsGiven) = 2
  /\ \E k \in OffsetsGiven : \E j \in OffsetsGiven :
       /\ Cardinality(CoveredEvents(k)) = 2
       /\ Cardinality(CoveredEvents(j)) = 1
       /\ Cardinality(EventTimes) = 3

\* C14: no step of the call changes events, grid_data or the caller's
\* relative_grid_indices collection, the order of its elements included.
C14_InputsUnchanged ==
  [][/\ events' = events
     /\ grid_data' = grid_data
     /\ relative_grid_indices' = relative_grid_indices]_vars


\* ---------------------------------------------------------------------
\* reindex_event_features
\* ---------------------------------------------------------------------

\* An index holds some label more than once.
HasDuplicates(index) ==
  \E i, j \in DOMAIN index : i # j /\ index[i] = index[j]

\* A reindex that keeps the rows of df and ignores the target index.
reindexKeepsOwnIndex(df_, target) ==
  [raised |-> NoError, table |-> df_]

\* DataFrame.reindex(index=target) with the default method, level and
\* fill value: one row per target label, in the target's order, holding
\* the row of df with that label, or NaN when df has none.  The same index
\* is a plain copy; otherwise duplicate labels in df cannot be reindexed.
reindex(df_, target) ==
  IF df_.index = target
  THEN [raised |-> NoError, table |-> df_]
  ELSE IF HasDuplicates(df_.index)
  THEN [raised |-> Raised("ValueError", 87), table |-> Nothing]
  ELSE [raised |-> NoError,
        table |->
          [isTable |-> TRUE,
           index |-> target,
           vals |->
             [i \in DOMAIN target |->
                IF target[i] \in Elems(df_.index)
                THEN df_.vals[PosOf(df_.index, target[i])]
                ELSE NaN]]]

\* reindex_event_features(events, grid_data): events reindexed onto the
\* index of grid_data.  Neither argument is asserted to be a table: an
\* argument without .reindex or .index ends in an AttributeError.
reindex_event_features(ev, gd) ==
  IF ~ev.isTable \/ ~gd.isTable
  THEN [raised |-> Raised("AttributeError", 87), table |-> Nothing]
  ELSE reindex(ev, gd.index)

\* The call of reindex_event_features, from entry to return.
Reindex ==
  /\ pc = "start"
  /\ LET r == reindex_event_features(events, grid_data) IN
       /\ raised' = r.raised
       /\ reindexed' = r.table
  /\ pc' = "done"
  /\ UNCHANGED <<events, grid_data, relative_grid_indices, freq, info,
                 arg_offsets, lst, pos, relative_data, info_for_idx,
                 warnings, df>>
  /\ UNCHANGED <<secondVars, regVars, toolVars>>

\* The arguments of reindex_event_features; the names the function does
\* not have keep one value.
ReindexInit ==
  /\ Init
  /\ relative_grid_indices = [isList |-> TRUE, items |-> <<0>>]
  /\ freq = NoFreq
  /\ info = NoDiagnostics

ReindexNext == Reindex

ReindexSpec == ReindexInit /\ [][ReindexNext]_vars

\* C13: reindex_event_features returns a table whose index is exactly the
\* index of the grid; a grid timestamp that events has carries the values
\* of events at that timestamp, a grid timestamp that events lacks carries
\* the missing marker, and so no row of events off the grid appears.
C13_ReindexedOntoGrid ==
  (/\ pc = "done"
   /\ events.isTable
   /\ grid_data.isTable
   /\ StrictlyIncreasing(events.index))
    => /\ raised = NoError
       /\ reindexed.isTable
       /\ reindexed.index = grid_data.index
       /\ DOMAIN reindexed.vals = DOMAIN grid_data.index
       /\ \A i \in DOMAIN grid_data.index :
            IF grid_data.index[i] \in EventTimes
            THEN \E j \in DOMAIN events.index :
                   /\ events.index[j] = grid_data.index[i]
                   /\ reindexed.vals[i] = events.vals[j]
            ELSE reindexed.vals[i] = NaN

\* C13 witness: a returned table with a row taken from events, a row of
\* missing values, while events has a row that is not on the grid.
C13_Witness ==
  /\ pc = "done"
  /\ raised = NoError
  /\ reindexed.isTable
  /\ StrictlyIncreasing(events.index)
  /\ \E i \in DOMAIN reindexed.index : reindexed.vals[i] = NaN
  /\ \E i \in DOMAIN reindexed.index : reindexed.vals[i] # NaN
  /\ \E t \in EventTimes : t \notin GridTimes


\* ---------------------------------------------------------------------
\* Two calls of build_local_timeseries at the same time on the same
\* argument objects.  Each call has its own local names; events,
\* grid_data, freq and the object passed as relative_grid_indices are
\* shared.  A step of a thread is one statement of the function: the
\* interpreter lock makes list.sort() on integers and each pandas call
\* indivisible.  Both calls pass info=None.
\* ---------------------------------------------------------------------

\* Lines 128-139 in the second call.
Enter2 ==
  /\ pc2 = "start"
  /\ LET r == CheckInputs(events, grid_data, relative_grid_indices.items)
     IN IF r # NoError
        THEN /\ raised2' = r
             /\ pc2' = "done"
             /\ UNCHANGED <<relative_grid_indices, lst2>>
        ELSE /\ lst2' = Sort(relative_grid_indices.items)
             /\ relative_grid_indices' =
                  IF relative_grid_indices.isList
                  THEN [relative_grid_indices EXCEPT !.items = lst2']
                  ELSE relative_grid_indices
             /\ pc2' = "loop"
             /\ UNCHANGED raised2
  /\ UNCHANGED <<pos2, relative_data2, df2>>
  /\ UNCHANGED <<events, grid_data, freq, info, arg_offsets, pc, lst, pos,
                 relative_data, info_for_idx, warnings, raised, df>>
  /\ UNCHANGED <<reindexed, regVars, toolVars>>

\* Lines 140-152 in the second call.
Iterate2 ==
  /\ pc2 = "loop"
  /\ pos2 <= Len(lst2)
  /\ LET idx == lst2[pos2]
         r == ShiftAndSelect(events.index, grid_data, 0 - idx, freq, NoInfo)
     IN IF r.raised # NoError
        THEN /\ raised2' = r.raised
             /\ pc2' = "done"
             /\ UNCHANGED <<relative_data2, pos2>>
        ELSE /\ relative_data2' = ItemsSet(relative_data2, idx, r.selected)
             /\ pos2' = pos2 + 1
             /\ UNCHANGED <<raised2, pc2>>
  /\ UNCHANGED <<lst2, df2>>
  /\ UNCHANGED callVars
  /\ UNCHANGED <<reindexed, regVars, toolVars>>

\* Lines 153-156 in the second call.
Return2 ==
  /\ pc2 = "loop"
  /\ pos2 > Len(lst2)
  /\ LET rows == concat(relative_data2)
     IN IF dassert_monotonic_multiindex(rows)
        THEN df2' = rows /\ UNCHANGED raised2
        ELSE raised2' = Raised("AssertionError", 155) /\ UNCHANGED df2
  /\ pc2' = "done"
  /\ UNCHANGED <<lst2, pos2, relative_data2>>
  /\ UNCHANGED callVars
  /\ UNCHANGED <<reindexed, regVars, toolVars>>

\* Both calls are made with the same arguments and without a dict.
ConcInit ==
  /\ CallInit
  /\ info = NoDiagnostics
  /\ pc2 = "start"
  /\ lst2 = <<>>
  /\ pos2 = 1
  /\ relative_data2 = <<>>
  /\ raised2 = NoError
  /\ df2 = <<>>
  /\ reindexed = Nothing
  /\ RegIdle
  /\ ToolsIdle

ConcNext == Enter \/ Iterate \/ Return \/ Enter2 \/ Iterate2 \/ Return2

ConcSpec == ConcInit /\ [][ConcNext]_vars

\* What the call alone raises and returns on the arguments as passed.
Alone ==
  build_local_timeseries(events, grid_data, arg_offsets, freq, FALSE)

\* The list a call iterates over is the caller's list object: the local
\* copies lst and lst2 never differ from it while the loop runs.
LoopListIsCallersList ==
  relative_grid_indices.isList
    => /\ (pc = "loop" => lst = relative_grid_indices.items)
       /\ (pc2 = "loop" => lst2 = relative_grid_indices.items)

\* Each of the two calls raises and returns what the call alone does.
ConcurrentResultsAsAlone ==
  /\ (pc = "done" => [raised |-> raised, df |-> df] = Alone)
  /\ (pc2 = "done" => [raised |-> raised2, df |-> df2] = Alone)

\* C15: of two calls running at the same time on the same inputs, each
\* returns what it returns alone, and a call that has not yet read its
\* inputs finds them as they were passed: the other call has not changed
\* them.
C15_ConcurrentCallsIndependent ==
  /\ ConcurrentResultsAsAlone
  /\ (pc = "start" \/ pc2 = "start")
       => relative_grid_indices.items = arg_offsets


\* ---------------------------------------------------------------------
\* regression
\* ---------------------------------------------------------------------

\* The longest response.
MaxObs == 3
\* The numbers of predictors (columns of x).
PredictorCounts == {1, 2}
\* The entries of x and the non-missing entries of y.
XValues == {0, 1}
YValues == {0, 1, 2}

\* x is a sequence of rows, y a sequence of entries with NaN where the
\* response is missing; both carry the labels 1..n.
DesignInputs(n, p) == [1..n -> [1..p -> XValues]]
ResponseInputs(n) == [1..n -> YValues \cup {NaN}]

\* The info argument: None, an empty dict, a dict that has a key.
NoStats == [given |-> FALSE, keys |-> {}, d |-> <<>>]
EmptyStats == [given |-> TRUE, keys |-> {}, d |-> <<>>]
UsedStats == [given |-> TRUE, keys |-> {"old"}, d |-> [k \in {"old"} |-> 0]]

\* A float as a quotient of integers: den = 0 stands for nan (num = 0),
\* inf (num = 1) and -inf (num = -1), as IEEE division produces them.
Rat(n, d) == [num |-> n, den |-> d]
Sign(n) == IF n > 0 THEN 1 ELSE IF n < 0 THEN 0 - 1 ELSE 0
\* n / d of two integers.
Quot(n, d) == IF d = 0 THEN Rat(Sign(n), 0) ELSE Rat(n, d)
\* 1 - q.
OneMinus(q) ==
  IF q.den = 0 THEN Rat(0 - q.num, 0) ELSE Rat(q.den - q.num, q.den)
\* The float q is the integer k.
RatIs(q, k) == q.den # 0 /\ q.num = k * q.den

RECURSIVE Kept(_, _)
\* nan_filter = ~np.isnan(y): the labels from i on whose response is a number.
Kept(y_, i) ==
  IF i > Len(y_) THEN <<>>
  ELSE IF y_[i] = NaN THEN Kept(y_, i + 1)
  ELSE <<i>> \o Kept(y_, i + 1)

RECURSIVE Dot(_, _)
\* u.dot(v)
Dot(u, v) ==
  IF u = <<>> THEN 0 ELSE Head(u) * Head(v) + Dot(Tail(u), Tail(v))

\* Column j of the rows m.
Col(m, j) == [i \in DOMAIN m |-> m[i][j]]

\* x.transpose().dot(x) for x with p columns.
XtX(m, p) == [j \in 1..p |-> [k \in 1..p |-> Dot(Col(m, j), Col(m, k))]]

\* The determinant and the adjugate of a 1x1 or 2x2 matrix: the inverse
\* is Adj / Det.
Det(a) ==
  IF Len(a) = 1 THEN a[1][1] ELSE a[1][1] * a[2][2] - a[1][2] * a[2][1]
Adj(a) ==
  IF Len(a) = 1 THEN <<(<<1>>)>>
  ELSE << <<a[2][2], 0 - a[1][2]>>, <<0 - a[2][1], a[1][1]>> >>

\* Lines 214-236 on the rows that are kept.  Every statistic is exact:
\*   beta_hat[j]       = beta[j] / det
\*   rss               = rss[1] / det^2   (an array, empty without residuals)
\*   tss               = tss / nobs,  y_mean = y_sum / nobs
\*   sigma_hat_sq      = rss[1] / (det^2 * dof)
\*   xtx_inv           = adj / det
\*   beta_hat_covar    = adj * rss[1] / (det^3 * dof)
\*   beta_hat_z_score  = beta_hat[j] / sqrt(root[j])
Statistics(x_, y_) ==
  LET kept == Kept(y_, 1)
      nobs == Len(kept)
      p == IF x_ = <<>> THEN 0 ELSE Len(x_[1])
      xf == [k \in 1..nobs |-> x_[kept[k]]]
      yf == [k \in 1..nobs |-> y_[kept[k]]]
      y_sum == Dot(yf, [k \in 1..nobs |-> 1])
      tss == nobs * Dot(yf, yf) - y_sum * y_sum
      xtx == XtX(xf, p)
      det == Det(xtx)
      adj == Adj(xtx)
      xty == [j \in 1..p |-> Dot(Col(xf, j), yf)]
      beta == [j \in 1..p |-> Dot(adj[j], xty)]
      resid == [k \in 1..nobs |-> det * yf[k] - Dot(xf[k], beta)]
      \* np.linalg.lstsq returns the residuals only when there are more rows
      \* than columns and x has full column rank.
      rss == IF nobs > p /\ det # 0 THEN <<Dot(resid, resid)>> ELSE <<>>
      dof == nobs - p
  IN [index |-> kept,
      nobs |-> nobs,
      p |-> p,
      y_sum |-> y_sum,
      tss |-> tss,
      det |-> det,
      beta |-> beta,
      rss |-> rss,
      r_sq |-> [e \in DOMAIN rss |->
                  OneMinus(Quot(rss[e] * nobs, det * det * tss))],
      dof |-> dof,
      sigma_hat_sq |-> [e \in DOMAIN rss |->
                          Quot(rss[e], det * det * dof)],
      adj |-> adj,
      covar_shape |-> IF rss = <<>> THEN <<p, 0>> ELSE <<p, p>>,
      root |-> IF rss = <<>> THEN <<>>
               ELSE [j \in 1..p |->
                       Quot(rss[1] * adj[j][j], det * det * det * dof)]]

\* The keys regression writes: the format strings of lines 241-249.
StatKeys ==
  {"nobs (resp)=%d", "y_mean=%f", "tss=%f", "beta=%s", "rss=%f", "r^2=%f",
   "sigma_hat_sq=%s", "beta_hat_covar=%s", "beta_hat_z_score=%s"}

\* Lines 241-249: the dict after the nine assignments.
WriteStats(inf, st) ==
  [given |-> TRUE,
   keys |-> inf.keys \cup StatKeys,
   d |-> [k \in inf.keys \cup StatKeys |->
            IF k = "nobs (resp)=%d" THEN st.nobs
            ELSE IF k = "y_mean=%f" THEN Quot(st.y_sum, st.nobs)
            ELSE IF k = "tss=%f" THEN Quot(st.tss, st.nobs)
            ELSE IF k = "beta=%s" THEN [num |-> st.beta, den |-> st.det]
            ELSE IF k = "rss=%f" THEN [num |-> st.rss, den |-> st.det * st.det]
            ELSE IF k = "r^2=%f" THEN st.r_sq
            ELSE IF k = "sigma_hat_sq=%s" THEN st.sigma_hat_sq
            ELSE IF k = "beta_hat_covar=%s"
              THEN [shape |-> st.covar_shape, adj |-> st.adj,
                    sigma_hat_sq |-> st.sigma_hat_sq, det |-> st.det]
            ELSE IF k = "beta_hat_z_score=%s"
              THEN [beta |-> st.beta, det |-> st.det, root |-> st.root]
            ELSE inf.d[k]]]

\* Lines 214-236: the filter and the fit.  With no row left lstsq or inv
\* fails, whichever the numpy at hand lets pass; a singular x'x fails in
\* inv; with as many rows as columns rss is an empty array, which does
\* not broadcast against a 2x2 inverse and does against a 1x1.
Fit ==
  /\ reg_pc = "start"
  /\ LET st == Statistics(reg_x, reg_y) IN
       /\ reg_stats' = st
       /\ IF st.nobs = 0
          THEN /\ \E line \in {224, 231} :
                    reg_raised' = Raised("LinAlgError", line)
               /\ reg_pc' = "done"
          ELSE IF st.det = 0
          THEN /\ reg_raised' = Raised("LinAlgError", 231)
               /\ reg_pc' = "done"
          ELSE IF st.rss = <<>> /\ st.p > 1
          THEN /\ reg_raised' = Raised("ValueError", 234)
               /\ reg_pc' = "done"
          ELSE /\ reg_pc' = "fitted"
               /\ UNCHANGED reg_raised
  /\ UNCHANGED <<reg_x, reg_y, reg_info, reg_fitted>>
  /\ UNCHANGED <<callVars, reindexed, secondVars, toolVars>>

\* Lines 238-249: the statistics are written to the dict, if there is one
\* and it is empty.
WriteInfo ==
  /\ reg_pc = "fitted"
  /\ IF ~reg_info.given
     THEN /\ reg_pc' = "predict"
          /\ UNCHANGED <<reg_info, reg_raised>>
     ELSE IF reg_info.keys # {}
     THEN /\ reg_raised' = Raised("AssertionError", 240)
          /\ reg_pc' = "done"
          /\ UNCHANGED reg_info
     ELSE /\ reg_info' = WriteStats(reg_info, reg_stats)
          /\ reg_pc' = "predict"
          /\ UNCHANGED reg_raised
  /\ UNCHANGED <<reg_x, reg_y, reg_stats, reg_fitted>>
  /\ UNCHANGED <<callVars, reindexed, secondVars, toolVars>>

\* Lines 251-252: numpy has no attribute mat_mul, so looking it up raises
\* and the series of line 252 is never built.
Predict ==
  /\ reg_pc = "predict"
  /\ reg_raised' = Raised("AttributeError", 251)
  /\ reg_pc' = "done"
  /\ UNCHANGED <<reg_x, reg_y, reg_info, reg_stats, reg_fitted>>
  /\ UNCHANGED <<callVars, reindexed, secondVars, toolVars>>

\* build_local_timeseries is not called.
CallIdle ==
  /\ events = NotATable
  /\ grid_data = NotATable
  /\ relative_grid_indices = [isList |-> TRUE, items |-> <<>>]
  /\ arg_offsets = <<>>
  /\ freq = NoFreq
  /\ info = NoDiagnostics
  /\ pc = "idle"
  /\ lst = <<>>
  /\ pos = 1
  /\ relative_data = <<>>
  /\ info_for_idx = NoInfo
  /\ warnings = <<>>
  /\ raised = NoError
  /\ df = <<>>

\* The arguments of regression on entry.
RegInit ==
  /\ \E n \in 1..MaxObs, p \in PredictorCounts :
       /\ reg_x \in DesignInputs(n, p)
       /\ reg_y \in ResponseInputs(n)
  /\ reg_info \in {NoStats, EmptyStats, UsedStats}
  /\ reg_pc = "start"
  /\ reg_stats = <<>>
  /\ reg_raised = NoError
  /\ reg_fitted = Nothing
  /\ CallIdle
  /\ reindexed = Nothing
  /\ SecondIdle
  /\ ToolsIdle

RegNext == Fit \/ WriteInfo \/ Predict

RegSpec == RegInit /\ [][RegNext]_vars


\* ------------------------------------------------------------ vocabulary of the regression claims
\* The labels of the responses that are numbers, in their order.
NonNaNLabels == SeqOfSet({i \in DOMAIN reg_y : reg_y[i] # NaN})
\* The number of predictors.
NumPredictors == Len(reg_x[1])
\* x'x of the rows whose response is a number.
FilteredXtX ==
  XtX([k \in DOMAIN NonNaNLabels |-> reg_x[NonNaNLabels[k]]], NumPredictors)
\* More observations than predictors and x of full column rank.
WellPosed ==
  /\ Len(NonNaNLabels) > NumPredictors
  /\ Det(FilteredXtX) # 0
\* The call was made with no dict or with an empty one.
NoneOrEmptyOnEntry == "old" \notin reg_info.keys
EmptyOnEntry == reg_info.given /\ "old" \notin reg_info.keys
\* The coefficient vectors a noise-free response is made from.
Coefficients == [1..NumPredictors -> YValues]
\* y = x times b on every row whose response is a number.
NoiseFree(b) ==
  \A i \in DOMAIN reg_y :
    reg_y[i] # NaN => reg_y[i] = Dot(reg_x[i], b)

\* The filter is right: the fit counts and keeps exactly the responses
\* that are numbers, and writes that count.
NobsCountsResponses ==
  reg_pc # "start"
    => /\ reg_stats.nobs = Cardinality({i \in DOMAIN reg_y : reg_y[i] # NaN})
       /\ reg_stats.index = NonNaNLabels
       /\ (reg_info.given /\ "nobs (resp)=%d" \in reg_info.keys)
            => reg_info.d["nobs (resp)=%d"] = reg_stats.nobs

\* No call of regression returns: every call ends in an exception.
RegressionAlwaysRaises ==
  reg_pc = "done" => reg_raised # NoError /\ reg_fitted = Nothing

\* Once line 249 is passed an empty dict holds the nine statistics.
NineStatisticsWritten ==
  (reg_pc \in {"predict", "done"} /\ EmptyOnEntry
     /\ reg_raised.line \notin {224, 231, 234})
    => /\ reg_info.keys = StatKeys
       /\ Cardinality(reg_info.keys) = 9

\* The fit of a noise-free response is exact, and r^2 is 1 unless the
\* response is constant, where it is nan.
NoiseFreeFitIsExact ==
  \A b \in Coefficients :
    (reg_pc # "start" /\ WellPosed /\ NoiseFree(b))
      => /\ \A j \in 1..NumPredictors :
              reg_stats.beta[j] = b[j] * reg_stats.det
         /\ reg_stats.rss = <<0>>
         /\ IF reg_stats.tss # 0
            THEN RatIs(reg_stats.r_sq[1], 1)
            ELSE reg_stats.r_sq[1] = Rat(0, 0)

\* C16: regression reports as nobs the number of non-NaN entries of y, and
\* the fitted values it returns are indexed by the labels of the non-NaN
\* entries of y, in their original order.
C16_FilteredByResponseMask ==
  (reg_pc = "done" /\ WellPosed /\ NoneOrEmptyOnEntry)
    => /\ reg_stats.nobs = Cardinality({i \in DOMAIN reg_y : reg_y[i] # NaN})
       /\ reg_fitted.isTable
       /\ reg_fitted.index = NonNaNLabels

\* C17: on a well-posed input regression completes without error and
\* returns x times beta_hat on the index of the filtered response, with or
\* without a dict.
C17_WellPosedCallReturnsFit ==
  (reg_pc = "done" /\ WellPosed /\ NoneOrEmptyOnEntry)
    => /\ reg_raised = NoError
       /\ reg_fitted.isTable
       /\ DOMAIN reg_fitted.vals = DOMAIN NonNaNLabels
       /\ \A k \in DOMAIN NonNaNLabels :
            reg_fitted.vals[k] =
              Quot(Dot(reg_x[NonNaNLabels[k]], reg_stats.beta), reg_stats.det)

\* C18: with as many observations as predictors regression raises an
\* error, returns nothing and writes no statistic to the dict.
C18_ZeroDegreesOfFreedomRaises ==
  (reg_pc = "done" /\ Len(NonNaNLabels) = NumPredictors)
    => /\ reg_raised # NoError
       /\ reg_fitted = Nothing
       /\ reg_info.keys \cap StatKeys = {}

\* C19: given an empty dict and a well-posed input, regression returns
\* and the dict then holds the nine statistics, each under its own key,
\* and nothing else.
C19_DictHoldsNineOnReturn ==
  (reg_pc = "done" /\ WellPosed /\ EmptyOnEntry)
    => /\ reg_raised = NoError
       /\ reg_info.keys = StatKeys
       /\ Cardinality(reg_info.keys) = 9

\* C20: for x of full column rank and y = x times beta_true with more
\* observations than predictors, regression(x, y) ends with beta_hat equal
\* to beta_true, rss 0 and r^2 1, no intercept added.
C20_NoiseFreeRecovered ==
  \A b \in Coefficients :
    (reg_pc = "done" /\ WellPosed /\ NoiseFree(b) /\ NoneOrEmptyOnEntry)
      => /\ reg_raised = NoError
         /\ \A j \in 1..NumPredictors :
              reg_stats.beta[j] = b[j] * reg_stats.det
         /\ reg_stats.rss = <<0>>
         /\ RatIs(reg_stats.r_sq[1], 1)


\* ---------------------------------------------------------------------
\* build_local_timeseries with a dict that already has an entry
\* ---------------------------------------------------------------------

\* A record some earlier call left in the dict.
OldRecord == [NoInfo EXCEPT !.given = TRUE, !.keys = {"old"}]
\* The caller's info argument: a dict that has an entry under offset 0.
UsedDiagnostics == [given |-> TRUE, d |-> [k \in {0} |-> OldRecord]]

InfoInit ==
  /\ CallInitWith({NoDiagnostics, EmptyDiagnostics, UsedDiagnostics})
  /\ reindexed = Nothing
  /\ SecondIdle
  /\ RegIdle
  /\ ToolsIdle

InfoSpec == InfoInit /\ [][Next]_vars

\* The dict passed had an entry.
ContainerHadEntries ==
  /\ info.given
  /\ \E k \in DOMAIN info.d : info.d[k] = OldRecord

\* No entry of the dict is ever replaced or removed.
NoEntryOverwritten ==
  [][\A k \in DOMAIN info.d :
       k \in DOMAIN info'.d /\ info'.d[k] = info.d[k]]_vars

\* A call given a dict, valid tables and offsets with events on the grid
\* ends in the NameError of line 196, whatever the dict holds.
CallWithDictEndsInNameError ==
  (pc = "done" /\ info.given /\ raised.err # "AssertionError")
    => raised = Raised("NameError", 196)

\* C21: a dict passed to build_local_timeseries that already has entries is
\* rejected with a validation error and left as it was.
C21_UsedContainerRejected ==
  (pc = "done" /\ ContainerHadEntries)
    => /\ raised.err = "AssertionError"
       /\ info = UsedDiagnostics


\* ---------------------------------------------------------------------
\* dev_scripts/linter.py: _main and what it calls, without --debug
\* ---------------------------------------------------------------------

\* The most --action options on a command line.
MaxActionOptions == 2

\* _ALL_ACTIONS: the first column of _VALID_ACTIONS_META, in its order.
ALL_ACTIONS ==
  <<"basic_hygiene", "python_compile", "autoflake", "isort", "black",
    "flake8", "pydocstyle", "pylint", "sync_jupytext", "test_jupytext">>

\* The names given with --action: two actions and a name that is none.
ActionOptions == {"pylint", "basic_hygiene", "bogus"}

\* The executable an action needs; basic_hygiene and python_compile
\* need none.
Executables ==
  {"autoflake", "isort", "black", "flake8", "pydocstyle", "pylint",
   "jupytext"}
ExecutableOf(action) ==
  IF action \in {"sync_jupytext", "test_jupytext"} THEN "jupytext" ELSE action

\* A file name: its directory, its stem and its extension.
File(dir, stem, ext) == [dir |-> dir, stem |-> stem, ext |-> ext]
XPy == File("src", "x", ".py")
XIpynb == File("src", "x", ".ipynb")
TmpPy == File("src/tmp.linter", "x", ".py")
NotesTxt == File("src", "notes", ".txt")

\* The values of --files, and of the files git reports as modified.
FileLists ==
  {<<>>, <<XPy>>, <<XIpynb>>, <<XPy, XIpynb>>, <<XPy, XPy>>,
   <<NotesTxt>>, <<TmpPy, XIpynb>>}

is_py_file(f) == f.ext = ".py"
is_ipynb_file(f) == f.ext = ".ipynb"
from_python_to_ipynb_file(f) == [f EXCEPT !.ext = ".ipynb"]
from_ipynb_to_python_file(f) == [f EXCEPT !.ext = ".py"]

\* is_paired_jupytext_file on the disk ex.
is_paired_jupytext_file(f, ex) ==
  \/ is_py_file(f) /\ from_python_to_ipynb_file(f) \in ex
  \/ is_ipynb_file(f) /\ from_ipynb_to_python_file(f) \in ex

\* _filter_target_files: .py and .ipynb files outside tmp directories.
filter_target_files(names) ==
  LET valid(f) == f.ext \in {".py", ".ipynb"} /\ f.dir = "src"
  IN SelectSeq(names, valid)

\* _get_files: --files, or else the files modified in the git client,
\* filtered by extension and by the skip_ and only_ options.
get_files(a, ex) ==
  LET given == IF a.files # <<>> THEN a.files ELSE a.modified
      targets == filter_target_files(given)
      keep(f) ==
        /\ ~(a.skip_py /\ is_py_file(f))
        /\ ~(a.skip_ipynb /\ is_ipynb_file(f))
        /\ ~(a.skip_paired_jupytext /\ is_paired_jupytext_file(f, ex))
        /\ (a.only_py => is_py_file(f) /\ ~is_paired_jupytext_file(f, ex))
        /\ (a.only_ipynb => is_ipynb_file(f))
        /\ (a.only_paired_jupytext => is_paired_jupytext_file(f, ex))
      kept == SelectSeq(targets, keep)
  IN IF kept = <<>>
     THEN [raised |-> Raised("ValueError", 232), file_names |-> <<>>]
     ELSE [raised |-> NoError, file_names |-> kept]

\* The actions of ALL_ACTIONS that are in the set S, in ALL_ACTIONS' order.
InAllActionsOrder(S) ==
  LET in(a) == a \in S IN SelectSeq(ALL_ACTIONS, in)

\* A selection that keeps the actions in the order and number given.
select_actions_as_given(a, inst) ==
  [raised |-> NoError, actions |-> a.action]

\* _select_actions: --action, replaced by all actions when there is none
\* or with --all, and by all but pylint with --quick; then validated,
\* ordered as ALL_ACTIONS, and left without those whose executable is
\* missing.
select_actions(a, inst) ==
  LET chosen == IF a.action = <<>> \/ a.all
                THEN Elems(ALL_ACTIONS) ELSE Elems(a.action)
      quick == IF a.quick THEN Elems(ALL_ACTIONS) \ {"pylint"} ELSE chosen
      possible(x) ==
        x \in {"basic_hygiene", "python_compile"} \/ ExecutableOf(x) \in inst
  IN IF \E x \in quick : x \notin Elems(ALL_ACTIONS)
     THEN [raised |-> Raised("ValueError", 850), actions |-> <<>>]
     ELSE [raised |-> NoError,
           actions |-> SelectSeq(InAllActionsOrder(quick), possible)]

\* What an action does on file f with the disk ex: whether it starts its
\* tool, the files it writes and creates, whether it can raise and where.
\* black, isort and autoflake rewrite f; jupytext writes the notebook and
\* its .py file; pylint and pydocstyle do not abort on error.
action_on(action, f, ex) ==
  LET none == [tool |-> FALSE, writes |-> {}, creates |-> {},
               fails |-> FALSE, line |-> 0]
      pair == {[f EXCEPT !.ext = ".py"], [f EXCEPT !.ext = ".ipynb"]}
  IN IF action = "basic_hygiene"
     THEN [none EXCEPT !.writes = {f}]
     ELSE IF action = "sync_jupytext"
     THEN IF is_py_file(f) /\ ~is_paired_jupytext_file(f, ex) THEN none
          ELSE IF is_ipynb_file(f) /\ ~is_paired_jupytext_file(f, ex)
          THEN [tool |-> TRUE, writes |-> pair,
                creates |-> {from_ipynb_to_python_file(f)},
                fails |-> TRUE, line |-> 767]
          ELSE [tool |-> TRUE, writes |-> pair, creates |-> {},
                fails |-> TRUE, line |-> 781]
     ELSE IF action = "test_jupytext"
     THEN IF is_ipynb_file(f)
          THEN [none EXCEPT !.tool = TRUE, !.fails = TRUE, !.line = 802]
          ELSE none
     ELSE IF ~is_py_file(f) THEN none
     ELSE IF action = "python_compile"
     THEN [none EXCEPT !.fails = TRUE, !.line = 392]
     ELSE IF action = "autoflake"
     THEN [none EXCEPT !.tool = TRUE, !.writes = {f}, !.fails = TRUE,
                       !.line = 412]
     ELSE IF action = "isort"
     THEN [none EXCEPT !.tool = TRUE, !.writes = {f}, !.fails = TRUE,
                       !.line = 471]
     ELSE IF action = "black"
     THEN [none EXCEPT !.tool = TRUE, !.writes = {f}, !.fails = TRUE,
                       !.line = 452]
     ELSE IF action = "flake8"
     THEN [none EXCEPT !.tool = TRUE, !.fails = TRUE, !.line = 503]
     ELSE [none EXCEPT !.tool = TRUE]


\* The skip_ and only_ options: none set, or one of two.
NoFileOptions ==
  [skip_py |-> FALSE, skip_ipynb |-> FALSE, skip_paired_jupytext |-> FALSE,
   only_py |-> FALSE, only_ipynb |-> FALSE, only_paired_jupytext |-> FALSE]
FileOptions ==
  {NoFileOptions,
   [NoFileOptions EXCEPT !.skip_paired_jupytext = TRUE],
   [NoFileOptions EXCEPT !.only_ipynb = TRUE]}

\* The executables that may be missing.
MaybeMissing == {"jupytext"}

\* The command lines: the options _main and its callees read.  modified
\* is what git reports as modified, read when --files is not given.
CommandLines ==
  {[action |-> al, all |-> o[1], quick |-> o[2], test_actions |-> o[3],
    collect_only |-> o[4], no_cleanup |-> o[5], num_threads |-> nt,
    files |-> fl, modified |-> IF fl = <<>> THEN md ELSE <<>>,
    skip_py |-> fo.skip_py, skip_ipynb |-> fo.skip_ipynb,
    skip_paired_jupytext |-> fo.skip_paired_jupytext,
    only_py |-> fo.only_py, only_ipynb |-> fo.only_ipynb,
    only_paired_jupytext |-> fo.only_paired_jupytext] :
     al \in SeqsUpTo(ActionOptions, MaxActionOptions),
     o \in [1..5 -> BOOLEAN],
     nt \in {"serial", "-1"},
     fl \in FileLists,
     md \in {<<>>, <<XPy>>},
     fo \in FileOptions}

\* The files a command line names are on disk; the other half of a
\* notebook pair may be there as well.
Disks(a) ==
  LET named == {f \in Elems(a.files) \cup Elems(a.modified) :
                  f.dir = "src"}
  IN {named \cup more : more \in SUBSET {XPy, XIpynb}}

\* _main is entered.
LintInit ==
  /\ args \in CommandLines
  /\ exists \in Disks(args)
  /\ installed \in {Executables \ m : m \in SUBSET MaybeMissing}
  /\ main_pc = "start"
  /\ file_names = <<>>
  /\ actions = <<>>
  /\ progress = <<>>
  /\ ran = <<>>
  /\ synced = <<>>
  /\ written = {}
  /\ tmp_dir = FALSE
  /\ linter_log = FALSE
  /\ main_raised = NoError
  /\ exit_code = 0 - 1
  /\ HygieneIdle
  /\ CallIdle
  /\ reindexed = Nothing
  /\ SecondIdle
  /\ RegIdle

\* Lines 946-949: --test_actions lists the possible actions and exits.
TestActions ==
  /\ main_pc = "start"
  /\ args.test_actions
  /\ exit_code' = 0
  /\ main_pc' = "done"
  /\ UNCHANGED <<args, exists, installed, file_names, actions, progress, ran,
                 synced, written, tmp_dir, linter_log, main_raised>>
  /\ UNCHANGED <<callVars, reindexed, secondVars, regVars, hygieneVars>>

\* Lines 950-955: the files are selected.
GetFiles ==
  /\ main_pc = "start"
  /\ ~args.test_actions
  /\ LET r == get_files(args, exists) IN
       IF r.raised # NoError
       THEN /\ main_raised' = r.raised
            /\ main_pc' = "done"
            /\ UNCHANGED file_names
       ELSE /\ file_names' = r.file_names
            /\ main_pc' = "files"
            /\ UNCHANGED main_raised
  /\ UNCHANGED <<args, exists, installed, actions, progress, ran, synced,
                 written, tmp_dir, linter_log, exit_code>>
  /\ UNCHANGED <<callVars, reindexed, secondVars, regVars, hygieneVars>>

\* A --collect_only that exits only once the tmp directory is there.
CollectOnlyAfterTmpDir ==
  /\ main_pc = "files"
  /\ args.collect_only
  /\ tmp_dir' = TRUE
  /\ exit_code' = 0
  /\ main_pc' = "done"
  /\ UNCHANGED <<args, exists, installed, file_names, actions, progress, ran,
                 synced, written, linter_log, main_raised>>
  /\ UNCHANGED <<callVars, reindexed, secondVars, regVars, hygieneVars>>

\* Lines 956-958: --collect_only exits.
CollectOnly ==
  /\ main_pc = "files"
  /\ args.collect_only
  /\ exit_code' = 0
  /\ main_pc' = "done"
  /\ UNCHANGED <<args, exists, installed, file_names, actions, progress, ran,
                 synced, written, tmp_dir, linter_log, main_raised>>
  /\ UNCHANGED <<callVars, reindexed, secondVars, regVars, hygieneVars>>

\* Line 959: the actions are selected.
SelectActions ==
  /\ main_pc = "files"
  /\ ~args.collect_only
  /\ LET r == select_actions(args, installed) IN
       IF r.raised # NoError
       THEN /\ main_raised' = r.raised
            /\ main_pc' = "done"
            /\ UNCHANGED actions
       ELSE /\ actions' = r.actions
            /\ main_pc' = "selected"
            /\ UNCHANGED main_raised
  /\ UNCHANGED <<args, exists, installed, file_names, progress, ran, synced,
                 written, tmp_dir, linter_log, exit_code>>
  /\ UNCHANGED <<callVars, reindexed, secondVars, regVars, hygieneVars>>

\* Lines 961-962 and 865-878: the tmp directory is created and one
\* worker per entry of file_names is set up.
CreateTmpDir ==
  /\ main_pc = "selected"
  /\ tmp_dir' = TRUE
  /\ progress' = [i \in DOMAIN file_names |-> 1]
  /\ ran' = [i \in DOMAIN file_names |-> <<>>]
  /\ synced' = [i \in DOMAIN file_names |-> 0]
  /\ main_pc' = "lint"
  /\ UNCHANGED <<args, exists, installed, file_names, actions, written,
                 linter_log, main_raised, exit_code>>
  /\ UNCHANGED <<callVars, reindexed, secondVars, regVars, hygieneVars>>

\* _run_linter runs the files one after the other.
Serial == args.num_threads = "serial" \/ Len(file_names) = 1

\* Lines 811-833: the worker of entry i runs its next action.  Serially
\* the entries are taken in order; in parallel any worker may step.  An
\* action that raises ends _main.
LintStep(i) ==
  /\ main_pc = "lint"
  /\ progress[i] <= Len(actions)
  /\ Serial => \A j \in 1..(i - 1) : progress[j] > Len(actions)
  /\ LET action == actions[progress[i]]
         r == action_on(action, file_names[i], exists)
     IN /\ ran' = [ran EXCEPT ![i] = Append(@, action)]
        /\ \E ok \in IF r.fails THEN BOOLEAN ELSE {TRUE} :
             IF ok
             THEN /\ progress' = [progress EXCEPT ![i] = @ + 1]
                  /\ written' =
                       written \cup {[worker |-> i, file |-> w] : w \in r.writes}
                  /\ exists' = exists \cup r.creates
                  /\ synced' =
                       IF action = "sync_jupytext" /\ r.tool
                       THEN [synced EXCEPT ![i] = @ + 1] ELSE synced
                  /\ UNCHANGED <<main_raised, main_pc>>
             ELSE /\ main_raised' =
                       Raised(IF action = "python_compile"
                              THEN "PyCompileError" ELSE "RuntimeError",
                              r.line)
                  /\ main_pc' = "done"
                  /\ UNCHANGED <<progress, written, exists, synced>>
  /\ UNCHANGED <<args, installed, file_names, actions, tmp_dir, linter_log,
                 exit_code>>
  /\ UNCHANGED <<callVars, reindexed, secondVars, regVars, hygieneVars>>

\* Lines 964-972: the output is printed and the log is written, unless
\* the log cannot be written.
WriteLog ==
  /\ main_pc = "lint"
  /\ \A i \in DOMAIN file_names : progress[i] > Len(actions)
  /\ \E ok \in BOOLEAN :
       IF ok
       THEN /\ linter_log' = TRUE
            /\ main_pc' = "logged"
            /\ UNCHANGED main_raised
       ELSE /\ main_raised' = Raised("OSError", 972)
            /\ main_pc' = "done"
            /\ UNCHANGED linter_log
  /\ UNCHANGED <<args, exists, installed, file_names, actions, progress, ran,
                 synced, written, tmp_dir, exit_code>>
  /\ UNCHANGED <<callVars, reindexed, secondVars, regVars, hygieneVars>>

\* Lines 973-990 and 1099-1100: the lints are counted, the tmp directory
\* is deleted unless --no_cleanup, and the count is the exit status.
Cleanup ==
  /\ main_pc = "logged"
  /\ \E num_lints \in {0, 1} : exit_code' = num_lints
  /\ tmp_dir' = IF ~args.no_cleanup THEN FALSE ELSE tmp_dir
  /\ main_pc' = "done"
  /\ UNCHANGED <<args, exists, installed, file_names, actions, progress, ran,
                 synced, written, linter_log, main_raised>>
  /\ UNCHANGED <<callVars, reindexed, secondVars, regVars, hygieneVars>>

LintNext ==
  \/ TestActions
  \/ GetFiles
  \/ CollectOnly
  \/ SelectActions
  \/ CreateTmpDir
  \/ \E i \in DOMAIN file_names : LintStep(i)
  \/ WriteLog
  \/ Cleanup

LintSpec == LintInit /\ [][LintNext]_vars


\* ------------------------------------------------------------ vocabulary of the linter claims
\* The place of an action in _ALL_ACTIONS, 0 for a name that is not there.
RankTable ==
  [a \in Elems(ALL_ACTIONS) \cup ActionOptions |->
     IF a \in Elems(ALL_ACTIONS) THEN PosOf(ALL_ACTIONS, a) ELSE 0]
Rank(a) == RankTable[a]

\* The actions the command line asks for.
Requested ==
  IF args.quick THEN Elems(ALL_ACTIONS) \ {"pylint"}
  ELSE IF args.action = <<>> \/ args.all THEN Elems(ALL_ACTIONS)
  ELSE Elems(args.action)

\* The requested actions whose executable is there.
Runnable ==
  {a \in Requested :
     a \in {"basic_hygiene", "python_compile"} \/ ExecutableOf(a) \in installed}

\* Some action has been run on some file.
SomeActionRan == \E i \in DOMAIN ran : ran[i] # <<>>

\* C22: on every file the actions run are requested ones, run in the order
\* of _ALL_ACTIONS and each at most once, whatever the order and the
\* repetitions of the --action options; when all files are done every
\* requested action that can be executed has run on each of them.
C22_ActionsInFixedOrder ==
  \A i \in DOMAIN ran :
    /\ \A j \in DOMAIN ran[i] : ran[i][j] \in Runnable
    /\ \A j \in 1..(Len(ran[i]) - 1) : Rank(ran[i][j]) < Rank(ran[i][j + 1])
    /\ main_pc = "logged" => Elems(ran[i]) = Runnable

\* C22 witness: --action pylint --action basic_hygiene, or pylint given
\* twice, on two files that are both done: basic_hygiene ran first and
\* pylint once.
C22_Witness ==
  /\ main_pc = "logged"
  /\ ~args.all /\ ~args.quick
  /\ args.action \in {<<"pylint", "basic_hygiene">>, <<"pylint", "pylint">>}
  /\ Len(file_names) = 2
  /\ \A i \in DOMAIN ran :
       ran[i] \in {<<"basic_hygiene", "pylint">>, <<"pylint">>}


\* Some name given with --action is not an action.
InvalidActionGiven ==
  \E j \in DOMAIN args.action : args.action[j] \notin Elems(ALL_ACTIONS)

\* _select_actions has returned a list of actions.
ActionsSelected == main_pc \in {"selected", "lint", "logged"} \/ linter_log

\* Without --all and --quick an invalid name ends _main in the ValueError
\* of line 850 before anything is run.
InvalidRejectedWithoutAllOrQuick ==
  (InvalidActionGiven /\ ~args.all /\ ~args.quick)
    => /\ ~ActionsSelected
       /\ ~SomeActionRan
       /\ ~tmp_dir

\* C23: when a name given with --action is not one of _ALL_ACTIONS,
\* _select_actions raises ValueError instead of returning actions, and no
\* action is run on any file, whatever --all and --quick are.
C23_InvalidActionRejected ==
  InvalidActionGiven
    => /\ ~ActionsSelected
       /\ ~SomeActionRan
       /\ (main_pc = "done" /\ file_names # <<>> /\ ~args.collect_only)
            => main_raised = Raised("ValueError", 850)


\* The sync_jupytext action has run to its end on entry i of file_names.
SyncDone(i) ==
  \E j \in DOMAIN ran[i] : ran[i][j] = "sync_jupytext" /\ progress[i] > j

\* sync_jupytext does call jupytext on every notebook, once.
SyncCallsJupytextOnNotebooks ==
  \A i \in DOMAIN synced :
    (SyncDone(i) /\ is_ipynb_file(file_names[i])) => synced[i] = 1

\* C24: sync_jupytext calls jupytext on a file always and only when the
\* file is an .ipynb file, so a notebook pair whose two files are both
\* selected is synced once.
C24_SyncOnlyOnNotebooks ==
  \A i \in DOMAIN synced :
    /\ synced[i] > 0 => is_ipynb_file(file_names[i])
    /\ (SyncDone(i) /\ is_ipynb_file(file_names[i])) => synced[i] = 1


\* --test_actions exits at once: no file is selected.
TestActionsExitsBeforeFiles ==
  (args.test_actions /\ main_pc # "start")
    => /\ main_pc = "done"
       /\ exit_code = 0
       /\ main_raised = NoError
       /\ file_names = <<>>

\* C26: with --collect_only _main exits with status 0 once the files are
\* selected: no action is selected or run, the tmp directory is not
\* created and the log is not written; with --test_actions it exits with
\* status 0 before any file is selected.  (When no file is selected
\* _get_files raises and there is nothing to exit after.)
C26_EarlyExits ==
  /\ args.collect_only
       => /\ main_pc \in {"start", "files", "done"}
          /\ actions = <<>>
          /\ ~SomeActionRan
          /\ ~tmp_dir
          /\ ~linter_log
          /\ (main_pc = "done" /\ main_raised = NoError) => exit_code = 0
          /\ (main_pc = "done" /\ ~args.test_actions /\ main_raised = NoError)
               => file_names # <<>>
          /\ main_raised \in {NoError, Raised("ValueError", 232)}
  /\ TestActionsExitsBeforeFiles

\* C26 witness: --collect_only has exited with status 0 after two files
\* were selected, while actions were asked for and could have run.
C26_Witness ==
  /\ args.collect_only
  /\ ~args.test_actions
  /\ main_pc = "done"
  /\ exit_code = 0
  /\ Len(file_names) = 2
  /\ args.action = <<"basic_hygiene">>


\* _run_linter runs the workers in parallel.
Parallel == progress # <<>> /\ ~Serial

\* Every entry of file_names has its own worker: an entry is worked on by
\* no other.
OneWorkerPerEntry ==
  main_pc \in {"lint", "logged"} => DOMAIN progress = DOMAIN file_names

\* C27: in parallel mode every selected file is processed by one worker
\* only, and a worker's actions write the file the worker was given and
\* no other, so that no file is written by two workers.
C27_WorkersWriteOwnFileOnly ==
  Parallel
    => /\ \A i, j \in DOMAIN file_names :
            file_names[i] = file_names[j] => i = j
       /\ \A w \in written : w.file = file_names[w.worker]
       /\ \A v, w \in written : v.file = w.file => v.worker = w.worker


\* _main keeps running until it exits, returns or raises.
LintFairSpec == LintSpec /\ WF_vars(LintNext)

\* On the way out without an exception the tmp directory is deleted
\* unless --no_cleanup is set.
TmpDirDeletedOnReturn ==
  (main_pc = "done" /\ main_raised = NoError /\ ~args.no_cleanup) => ~tmp_dir

\* C28: once _main has created the tmp directory, and --no_cleanup is not
\* set, the tmp directory is eventually deleted, on every way out of
\* _main, the ways out by an exception of an action or of the log write
\* included.
C28_TmpDirEventuallyDeleted ==
  [](( tmp_dir /\ ~args.no_cleanup) => <>(~tmp_dir))


\* ---------------------------------------------------------------------
\* _basic_hygiene
\* ---------------------------------------------------------------------

\* The longest file, in characters.
MaxChars == 5
\* The characters of a file: a letter, a space, a tab, an end of line.
Chars == {"a", " ", "\t", "\n"}
\* The characters str.rstrip() removes.
Whitespace == {" ", "\t", "\n"}

RECURSIVE SplitLines(_, _)
\* data.split("\n") of io_.from_file(file_name, split=True): the pieces
\* between the ends of line, cur being the piece read so far.
SplitLines(text, cur) ==
  IF text = <<>> THEN <<cur>>
  ELSE IF Head(text) = "\n" THEN <<cur>> \o SplitLines(Tail(text), <<>>)
  ELSE SplitLines(Tail(text), Append(cur, Head(text)))

RECURSIVE JoinLines(_)
\* "\n".join(lines)
JoinLines(lines) ==
  IF lines = <<>> THEN <<>>
  ELSE IF Len(lines) = 1 THEN lines[1]
  ELSE lines[1] \o <<"\n">> \o JoinLines(Tail(lines))

RECURSIVE ExpandTabs(_)
\* line.replace("\t", " " * 4)
ExpandTabs(line) ==
  IF line = <<>> THEN <<>>
  ELSE IF Head(line) = "\t"
  THEN <<" ", " ", " ", " ">> \o ExpandTabs(Tail(line))
  ELSE <<Head(line)>> \o ExpandTabs(Tail(line))

RECURSIVE RStrip(_, _)
\* line.rstrip() with chars = Whitespace, line.rstrip("\n") with {"\n"}.
RStrip(line, chars) ==
  IF line # <<>> /\ line[Len(line)] \in chars
  THEN RStrip(SubSeq(line, 1, Len(line) - 1), chars)
  ELSE line

RECURSIVE DropBlankEnd(_)
\* Lines 368-370: while the last line is "\n", it is removed.
DropBlankEnd(lines) ==
  IF lines # <<>> /\ lines[Len(lines)] = <<"\n">>
  THEN DropBlankEnd(SubSeq(lines, 1, Len(lines) - 1))
  ELSE lines

\* Lines 350-376: the text _basic_hygiene leaves in the file.
basic_hygiene(text) ==
  LET txt == SplitLines(text, <<>>)
      txt_new ==
        [k \in DOMAIN txt |->
           RStrip(RStrip(ExpandTabs(txt[k]), Whitespace), {"\n"})]
  IN JoinLines(DropBlankEnd(txt_new))

\* Lines 354-357: one message for every line that has a tab.
TabMessages(text) ==
  LET txt == SplitLines(text, <<>>)
      tabbed(line) == "\t" \in Elems(line)
  IN Len(SelectSeq(txt, tabbed))

\* The file on entry.
HygieneInit ==
  /\ content \in SeqsUpTo(Chars, MaxChars)
  /\ original = content
  /\ hygiene_pc = "start"
  /\ hygiene_output = 0
  /\ LintIdle
  /\ CallIdle
  /\ reindexed = Nothing
  /\ SecondIdle
  /\ RegIdle

\* _basic_hygiene(file_name, pedantic, check_if_possible=False).
BasicHygiene ==
  /\ hygiene_pc = "start"
  /\ content' = basic_hygiene(content)
  /\ hygiene_output' = TabMessages(content)
  /\ hygiene_pc' = "done"
  /\ UNCHANGED original
  /\ UNCHANGED <<callVars, reindexed, secondVars, regVars, lintVars>>

HygieneNext == BasicHygiene

HygieneSpec == HygieneInit /\ [][HygieneNext]_vars

\* The file ends with an empty line.
EndsWithBlankLine(text) ==
  /\ text # <<>>
  /\ text[Len(text)] = "\n"
  /\ Len(text) = 1 \/ text[Len(text) - 1] = "\n"

\* Some line of the file ends with a space.
HasTrailingSpace(text) ==
  \E k \in DOMAIN text :
    text[k] = " " /\ (k = Len(text) \/ text[k + 1] = "\n")

\* After the action the file has no tab and no line ending with a space.
NoTabsNoTrailingSpaces ==
  hygiene_pc = "done"
    => /\ "\t" \notin Elems(content)
       /\ ~HasTrailingSpace(content)

\* C25: after basic_hygiene has run on a file, the file has no blank lines
\* at its end, no tab and no space at the end of a line.
C25_FileIsClean ==
  hygiene_pc = "done"
    => /\ ~EndsWithBlankLine(content)
       /\ "\t" \notin Elems(content)
       /\ ~HasTrailingSpace(content)

====
